---- MODULE Spec2Model ----
(***************************************************************************)
(* Model of glootie.py: one execution of the Streamlit script.  The script *)
(* builds the sidebar (date range calculation), then serves at most one    *)
(* button: "Search Symbol" or "Analyze Stock".  The analysis handler runs  *)
(* its five tab sections in order inside one try/except.                   *)
(*                                                                         *)
(* Text is a sequence of characters, Python's None is the empty sequence   *)
(* and a present value x is <<x>>.  Time is counted in hours.              *)
(***************************************************************************)
EXTENDS Integers, Sequences, FiniteSets, TLC

VARIABLES
    polygon_api_key,  \* sidebar text input
    symbol,           \* "Enter a stock symbol" text input
    company_name,     \* "Enter company name" text input
    date_range,       \* radio selection
    timeframe,        \* selectbox selection
    now,              \* the clock read by datetime.now()
    market,           \* what yfinance holds for the symbol (options, closes, chains)
    end_date, start_date,
    pc,               \* position in the script
    pressed,          \* which button this execution serves
    details, quote, historical_data, greeks, ai_analysis,
    requests,         \* requests sent to yfinance, Polygon and OpenAI, in order
    invoked,          \* fetch functions invoked, in order
    gateway,          \* what the provider answered to each fetch function
    log,              \* stock_app_error.log, append only
    ui,               \* what Streamlit has been told to show, in order
    uncaught          \* an exception left the script

vars == <<polygon_api_key, symbol, company_name, date_range, timeframe, now, market,
          end_date, start_date, pc, pressed, details, quote, historical_data, greeks,
          ai_analysis, requests, invoked, gateway, log, ui, uncaught>>

----------------------------------------------------------------------------
(* Bounds and input domains *)

HoursPerDay == 24
MinNow == 365 * HoursPerDay + 23
MaxNow == 8784

None == <<>>
Some(x) == <<x>>
IsNone(o) == Len(o) = 0
Value(o) == o[1]

RangeOptions == {"1 Day", "3 Days", "1 Month", "3 Months", "1 Year"}
TimeframeOptions == {"1 Minute", "5 Minutes", "15 Minutes", "30 Minutes", "1 Hour", "1 Day"}
OtherRangeLabels == {"1 Week", ""}
OtherTimeframeLabels == {"2 Hours", "1 day"}

ApiKeyInputs == {<<>>, <<" ", " ">>, <<" ", "k">>}
SymbolInputs == {<<>>, <<" ">>, <<"A", " ">>}
CompanyInputs == {<<>>, <<"A">>}

FetchFunctions == {"search_stock_symbol", "get_stock_details", "get_current_quote",
                   "get_historical_data", "get_option_greeks", "get_chatgpt_analysis"}

----------------------------------------------------------------------------
(* Python helpers *)

IsSpace(c) == c \in {" ", "\t", "\n"}

RECURSIVE LStrip(_)
LStrip(s) == IF s = <<>> THEN s
             ELSE IF IsSpace(Head(s)) THEN LStrip(Tail(s)) ELSE s

RECURSIVE RStrip(_)
RStrip(s) == IF s = <<>> THEN s
             ELSE IF IsSpace(s[Len(s)]) THEN RStrip(SubSeq(s, 1, Len(s) - 1)) ELSE s

Strip(s) == RStrip(LStrip(s))

\* dict.get(key, 'N/A'): the value, or the 'N/A' text when the key is missing
DictGet(d, key) == IF key \in DOMAIN d THEN Some(d[key]) ELSE None

\* format spec ",.2f" accepts a number and raises ValueError on the text 'N/A'
MoneyFormatRaises(got) == IsNone(got)

\* from_date.strftime("%Y-%m-%d"): the calendar day, time of day dropped
Strftime(t) == t \div HoursPerDay

timedelta(days) == days * HoursPerDay

Msg(kind, text) == [kind |-> kind, text |-> text]
Req(api, params) == [api |-> api, params |-> params]
Effect(ret, msgs, logs, reqs, raised) ==
    [ret |-> ret, msgs |-> msgs, logs |-> logs, reqs |-> reqs, raised |-> raised]

Count(seq, x) == Cardinality({i \in DOMAIN seq : seq[i] = x})
CountApi(api) == Cardinality({i \in DOMAIN requests : requests[i].api = api})
Shown(kind, text) == \E i \in DOMAIN ui : ui[i] = Msg(kind, text)
CountShown(texts) == Cardinality({i \in DOMAIN ui : ui[i].text \in texts})

----------------------------------------------------------------------------
(* The providers.  Each fetch function receives what its provider answers. *)

Expirations == {"2026-12-18", "2027-01-15"}

Contract(strike, iv, state) == [strike |-> strike, impliedVolatility |-> iv, ivState |-> state]
C90 == Contract(90, 20, "value")
C100 == Contract(100, 35, "value")
CZero == Contract(100, 0, "value")
CNaN == Contract(100, 0, "nan")
CNoColumn == Contract(100, 0, "nokey")

Market(options, closes, chain) == [options |-> options, closes |-> closes, chain |-> chain]
SameChain(calls) == [e \in Expirations |-> calls]

\* markets of the ordinary runs: no listed options, one healthy contract,
\* degenerate implied volatilities, empty chain, empty price history
BasicMarkets ==
    { Market(<<>>, <<100>>, SameChain(<<>>)),
      Market(<<"2026-12-18">>, <<100>>, SameChain(<<C100>>)),
      Market(<<"2026-12-18">>, <<100>>, SameChain(<<CZero>>)),
      Market(<<"2026-12-18">>, <<100>>, SameChain(<<CNaN>>)) }

OptionLists == {<<>>, <<"2026-12-18">>, <<"2026-12-18", "2027-01-15">>,
                <<"2027-01-15", "2026-12-18">>}
CloseLists == {<<>>, <<100>>, <<100, 101>>, <<101, 100>>}
Chains == { [e \in Expirations |-> IF e = "2026-12-18" THEN <<C90, C100>> ELSE <<C100, C90>>],
            [e \in Expirations |-> IF e = "2026-12-18" THEN <<CZero, C90>> ELSE <<C90, CZero>>],
            [e \in Expirations |-> IF e = "2026-12-18" THEN <<CNaN>> ELSE <<>>],
            [e \in Expirations |-> IF e = "2026-12-18" THEN <<>> ELSE <<CNoColumn, C90>>] }
RichMarkets == {Market(o, c, ch) : o \in OptionLists, c \in CloseLists, ch \in Chains}

InfoFull == [symbol |-> "AAPL", longName |-> "Apple Inc.", marketCap |-> 3000, exchange |-> "NMS"]
InfoNoCap == [symbol |-> "AAPL", longName |-> "Apple Inc.", exchange |-> "NMS"]
\* ticker.info as yfinance answers: a full record, one without marketCap, an
\* empty record, or an exception.  (yfinance never raises Polygon's
\* NoResultsError, so that answer is not among them.)
DetailsAnswers == {"full", "nocap", "empty", "raise"}

Agg(close, volume) == [close |-> close, high |-> close + 1, low |-> close - 1,
                       open |-> close, volume |-> volume]
AggLists == {<<>>, <<Agg(100, 7)>>, <<Agg(100, 7), Agg(101, 8)>>}
Bar(ts, close) == [timestamp |-> ts, open |-> close, high |-> close + 1, low |-> close - 1,
                   close |-> close, volume |-> 5]
BarLists == {<<>>, <<Bar(86400000, 100), Bar(172800000, 101)>>}
Completions == {<<"o", "k", "\n">>, <<" ", "\n">>}

\* how the option-pricing library treats a zero or NaN volatility: the source
\* does not decide it, the library either raises or returns non-finite numbers
LibraryAnswers == {"raise", "nonfinite"}
\* the yfinance call of get_option_greeks that fails, if any
YfFailures == {"none", "options", "history", "option_chain"}

----------------------------------------------------------------------------
(* Fetch functions *)

Upper(c) == IF c = "a" THEN "A" ELSE c

search_stock_symbol(name, raises) ==
    LET reqs == <<Req("yf.Ticker", <<name>>)>> IN
    IF raises
    THEN Effect(None, <<>>, <<"Error searching stock symbol">>, reqs, FALSE)
    ELSE Effect(Some([i \in DOMAIN name |-> Upper(name[i])]), <<>>, <<>>, reqs, FALSE)

get_stock_details(sym, answer) ==
    LET reqs == <<Req("yf.info", <<sym>>)>> IN
    CASE answer = "full" -> Effect(Some(InfoFull), <<>>, <<>>, reqs, FALSE)
      [] answer = "nocap" -> Effect(Some(InfoNoCap), <<>>, <<>>, reqs, FALSE)
      [] answer = "empty" ->
            Effect(None, <<Msg("warning", "No details found for symbol")>>, <<>>, reqs, FALSE)
      [] answer = "noresults" ->
            Effect(None, <<Msg("warning", "No details found for symbol")>>, <<>>, reqs, FALSE)
      [] OTHER ->
            Effect(None, <<Msg("error", "Error fetching stock details")>>,
                   <<"Error fetching stock details">>, reqs, FALSE)

TimeToExpiry == <<30, 365>>
RiskFreeRate == <<1, 100>>

Sigma(call) == <<call.ivState, call.impliedVolatility>>
Degenerate(call) == call.ivState = "nan" \/ call.impliedVolatility = 0

\* one application of a py_vollib analytical greek: the value is a function
\* of exactly these arguments
Greek(fn, flag, S, K, t, r, sigma) ==
    [fn |-> fn, flag |-> flag, S |-> S, K |-> K, t |-> t, r |-> r, sigma |-> sigma]

\* a slip: .iloc[0] where the source takes .iloc[-1]
OldestClose(closes) == closes[1]

\* ticker.history(period="1d")["Close"].iloc[-1]
LatestClose(closes) == closes[Len(closes)]

\* option_chain.calls.iloc[0]
FirstCall(calls) == calls[1]

get_option_greeks(sym, mkt, fails, lib) ==
    LET failed(reqs) == Effect(None, <<>>, <<"Error fetching option Greeks">>, reqs, FALSE)
        r1 == <<Req("yf.options", <<sym>>)>>
        r2 == Append(r1, Req("yf.history", <<sym, "1d">>))
        options == mkt.options
    IN
    IF fails = "options" THEN failed(r1)
    ELSE IF options = <<>> THEN Effect(None, <<>>, <<>>, r1, FALSE)
    ELSE IF fails = "history" \/ mkt.closes = <<>> THEN failed(r2)
    ELSE
      LET current_price == LatestClose(mkt.closes)
          expiration == options[1]
          r3 == Append(r2, Req("yf.option_chain", <<sym, expiration>>))
          calls == mkt.chain[expiration]
      IN
      IF fails = "option_chain" \/ calls = <<>> THEN failed(r3)
      ELSE
        LET call == FirstCall(calls)
            S == current_price
            K == call.strike
            T == TimeToExpiry
            r == RiskFreeRate
            sigma == Sigma(call)
        IN
        IF call.ivState = "nokey" THEN failed(r3)
        ELSE IF Degenerate(call) /\ lib = "raise" THEN failed(r3)
        ELSE Effect(Some([delta |-> Greek("delta", "c", S, K, T, r, sigma),
                          gamma |-> Greek("gamma", "c", S, K, T, r, sigma),
                          theta |-> Greek("theta", "c", S, K, T, r, sigma),
                          vega  |-> Greek("vega", "c", S, K, T, r, sigma)]),
                    <<>>, <<>>, r3, FALSE)

\* a slip: the empty answer returns None without telling the user
get_current_quote_quiet(sym, raises, aggs) ==
    LET reqs == <<Req("polygon.get_previous_close_agg", <<sym>>)>> IN
    IF raises
    THEN Effect(None, <<Msg("error", "Error fetching current quote")>>,
                <<"Error fetching current quote">>, reqs, FALSE)
    ELSE IF aggs # <<>>
    THEN Effect(Some(aggs[1]), <<>>, <<>>, reqs, FALSE)
    ELSE Effect(None, <<>>, <<>>, reqs, FALSE)

\* a slip: a failed request is sent and reported a second time
get_current_quote_retry(sym, raises, aggs) ==
    LET reqs == <<Req("polygon.get_previous_close_agg", <<sym>>)>> IN
    IF raises
    THEN Effect(None, <<Msg("error", "Error fetching current quote"),
                        Msg("error", "Error fetching current quote")>>,
                <<"Error fetching current quote", "Error fetching current quote">>,
                reqs \o reqs, FALSE)
    ELSE IF aggs # <<>>
    THEN Effect(Some(aggs[1]), <<>>, <<>>, reqs, FALSE)
    ELSE Effect(None, <<Msg("warning", "No current quote available for symbol")>>,
                <<>>, reqs, FALSE)

get_current_quote(sym, raises, aggs) ==
    LET reqs == <<Req("polygon.get_previous_close_agg", <<sym>>)>> IN
    IF raises
    THEN Effect(None, <<Msg("error", "Error fetching current quote")>>,
                <<"Error fetching current quote">>, reqs, FALSE)
    ELSE IF aggs # <<>>
    THEN Effect(Some(aggs[1]), <<>>, <<>>, reqs, FALSE)
    ELSE Effect(None, <<Msg("warning", "No current quote available for symbol")>>,
                <<>>, reqs, FALSE)

\* a slip: the hour expressed in minutes
GranularityInMinutes(tf) ==
    IF tf = "1 Day" THEN <<1, "day">>
    ELSE IF tf = "1 Hour" THEN <<60, "minute">>
    ELSE IF tf = "30 Minutes" THEN <<30, "minute">>
    ELSE IF tf = "15 Minutes" THEN <<15, "minute">>
    ELSE IF tf = "5 Minutes" THEN <<5, "minute">>
    ELSE <<1, "minute">>

Granularity(tf) ==
    IF tf = "1 Day" THEN <<1, "day">>
    ELSE IF tf = "1 Hour" THEN <<1, "hour">>
    ELSE IF tf = "30 Minutes" THEN <<30, "minute">>
    ELSE IF tf = "15 Minutes" THEN <<15, "minute">>
    ELSE IF tf = "5 Minutes" THEN <<5, "minute">>
    ELSE <<1, "minute">>

\* pd.to_datetime(timestamp, unit='ms'): milliseconds to hours of the clock
ToDatetime(ms) == ms \div 3600000

get_historical_data(sym, from_date, to_date, tf, raises, data) ==
    LET g == Granularity(tf)
        reqs == <<Req("polygon.list_aggs",
                      [ticker |-> sym, multiplier |-> g[1], timespan |-> g[2],
                       from_ |-> Strftime(from_date), to |-> Strftime(to_date),
                       limit |-> 50000])>>
    IN
    IF raises
    THEN Effect(None, <<Msg("error", "Error fetching historical data")>>,
                <<"Error fetching historical data">>, reqs, FALSE)
    ELSE IF data # <<>>
    THEN Effect(Some([i \in DOMAIN data |->
                        [timestamp |-> data[i].timestamp, open |-> data[i].open,
                         high |-> data[i].high, low |-> data[i].low,
                         close |-> data[i].close, volume |-> data[i].volume,
                         date |-> ToDatetime(data[i].timestamp)]]),
                <<>>, <<>>, reqs, FALSE)
    ELSE Effect(None, <<Msg("warning", "No historical data available for symbol")>>,
                <<>>, reqs, FALSE)

get_chatgpt_analysis(prompt, raises, completion) ==
    LET reqs == <<Req("openai.ChatCompletion.create", <<prompt>>)>> IN
    IF raises
    THEN Effect(None, <<>>, <<"Error getting ChatGPT analysis">>, reqs, FALSE)
    ELSE Effect(Some(Strip(completion)), <<>>, <<>>, reqs, FALSE)

\* the f-string raises when the market cap is not a number
format_stock_data_for_chatgpt(sym, d, q, h, g) ==
    IF MoneyFormatRaises(DictGet(d, "marketCap"))
    THEN [raised |-> TRUE, prompt |-> <<>>]
    ELSE [raised |-> FALSE,
          prompt |-> <<sym, d.longName, d.marketCap, d.exchange, q.close, q.high, q.low,
                       q.open, q.volume, g.delta, g.gamma, g.theta, g.vega>>]

----------------------------------------------------------------------------
(* The script *)

NotCalled == [f \in FetchFunctions |-> "notcalled"]

InitWith(ranges, timeframes, markets) ==
    /\ polygon_api_key \in ApiKeyInputs
    /\ symbol \in SymbolInputs
    /\ company_name = <<>>
    /\ date_range \in ranges
    /\ timeframe \in timeframes
    /\ now \in MinNow..MaxNow
    /\ market \in markets
    /\ end_date = None /\ start_date = None
    /\ pc = "sidebar"
    /\ pressed = "none"
    /\ details = None /\ quote = None /\ historical_data = None
    /\ greeks = None /\ ai_analysis = None
    /\ requests = <<>> /\ invoked = <<>> /\ gateway = NotCalled
    /\ log = <<>> /\ ui = <<>>
    /\ uncaught = FALSE

Init == InitWith(RangeOptions, TimeframeOptions, BasicMarkets)

\* a slip: calendar months instead of 30 and 90 days
RangeDaysCalendar(label) ==
    IF label = "1 Day" THEN 1
    ELSE IF label = "3 Days" THEN 3
    ELSE IF label = "1 Month" THEN 31
    ELSE IF label = "3 Months" THEN 92
    ELSE 365

\* timedelta(days=...) of the selected range; the last branch takes every other label
RangeDays(label) ==
    IF label = "1 Day" THEN 1
    ELSE IF label = "3 Days" THEN 3
    ELSE IF label = "1 Month" THEN 30
    ELSE IF label = "3 Months" THEN 90
    ELSE 365

DateRange(label, clock) == [end_date |-> clock, start_date |-> clock - timedelta(RangeDays(label))]

inputs == <<polygon_api_key, symbol, date_range, timeframe, now, market>>
results == <<details, quote, historical_data, greeks, ai_analysis>>
traffic == <<requests, invoked, gateway, log, ui>>

Sidebar ==
    /\ pc = "sidebar"
    /\ end_date' = Some(DateRange(date_range, now).end_date)
    /\ start_date' = Some(DateRange(date_range, now).start_date)
    /\ pc' = "buttons"
    /\ UNCHANGED <<inputs, company_name, pressed, results, traffic, uncaught>>

SearchSymbol ==
    /\ pc = "buttons"
    /\ pressed' = "search"
    /\ pc' = "done"
    /\ \E name \in CompanyInputs, raises \in BOOLEAN :
        /\ company_name' = name
        /\ IF name # <<>>
           THEN LET e == search_stock_symbol(name, raises)
                    found == ~e.raised /\ ~IsNone(e.ret) /\ Value(e.ret) # <<>>
                    shown == IF e.raised THEN <<>>
                             ELSE IF found THEN <<Msg("success", "Symbol for")>>
                             ELSE <<Msg("error", "Could not find symbol for")>>
                IN /\ requests' = requests \o e.reqs
                   /\ invoked' = Append(invoked, "search_stock_symbol")
                   /\ gateway' = [gateway EXCEPT !["search_stock_symbol"] =
                                     IF raises THEN "raise" ELSE "data"]
                   /\ log' = log \o e.logs
                   /\ ui' = ui \o e.msgs \o shown
                   /\ uncaught' = e.raised
           ELSE UNCHANGED <<traffic, uncaught>>
    /\ UNCHANGED <<inputs, end_date, start_date, results>>

\* a slip: the inputs compared unstripped
MissingInputUnstripped(key, sym) == key = <<>> \/ sym = <<>>

\* not polygon_api_key.strip() or not symbol.strip()
MissingInput(key, sym) == Strip(key) = <<>> \/ Strip(sym) = <<>>

AnalyzeStock ==
    /\ pc = "buttons"
    /\ pressed' = "analyze"
    /\ IF MissingInput(polygon_api_key, symbol)
       THEN /\ ui' = Append(ui, Msg("error", "Please add your Polygon API Key and enter a stock symbol."))
            /\ pc' = "done"
       ELSE /\ ui' = ui
            /\ pc' = "tab1"
    /\ UNCHANGED <<inputs, company_name, end_date, start_date, results, requests, invoked,
                   gateway, log, uncaught>>

\* the handler's except clause, glootie.py:337-339
Unexpected(failed) == IF failed THEN <<Msg("error", "An unexpected error occurred")>> ELSE <<>>
UnexpectedLog(failed) == IF failed THEN <<"Unexpected error during stock analysis">> ELSE <<>>

\* a section has called fetch function f, got effect e, rendered `shown`, and
\* `failed` tells whether an exception reached the handler's except clause
Section(f, e, answer, shown, failed, next) ==
    /\ requests' = requests \o e.reqs
    /\ invoked' = Append(invoked, f)
    /\ gateway' = [gateway EXCEPT ![f] = answer]
    /\ log' = log \o e.logs \o UnexpectedLog(failed)
    /\ ui' = ui \o e.msgs \o shown \o Unexpected(failed)
    /\ pc' = IF failed THEN "done" ELSE next

DetailsRendering(d) ==
    LET head == <<Msg("subheader", "Stock Details"), Msg("write", "Ticker"), Msg("write", "Name")>>
    IN IF MoneyFormatRaises(DictGet(d, "marketCap"))
       THEN [raised |-> TRUE, shown |-> head]
       ELSE [raised |-> FALSE,
             shown |-> head \o <<Msg("write", "Market Cap"), Msg("write", "Exchange")>>]

Tab1 ==
    /\ pc = "tab1"
    /\ \E answer \in DetailsAnswers :
        LET e == get_stock_details(symbol, answer)
            r == IF e.raised \/ IsNone(e.ret) THEN [raised |-> FALSE, shown |-> <<>>]
                 ELSE DetailsRendering(Value(e.ret))
        IN /\ details' = IF e.raised THEN details ELSE e.ret
           /\ Section("get_stock_details", e,
                      CASE answer \in {"full", "nocap"} -> "data"
                        [] answer = "raise" -> "raise"
                        [] OTHER -> "nodata",
                      r.shown, e.raised \/ r.raised, "tab2")
    /\ UNCHANGED <<inputs, company_name, end_date, start_date, pressed, quote, historical_data,
                   greeks, ai_analysis, uncaught>>

Tab2 ==
    /\ pc = "tab2"
    /\ \E raises \in BOOLEAN, aggs \in AggLists :
        LET e == get_current_quote(symbol, raises, aggs)
            shown == IF e.raised \/ IsNone(e.ret) THEN <<>>
                     ELSE <<Msg("subheader", "Latest Quote"), Msg("table", "Latest Quote")>>
        IN /\ quote' = IF e.raised THEN quote ELSE e.ret
           /\ Section("get_current_quote", e,
                      IF raises THEN "raise" ELSE IF aggs = <<>> THEN "nodata" ELSE "data",
                      shown, e.raised, "tab3")
    /\ UNCHANGED <<inputs, company_name, end_date, start_date, pressed, details, historical_data,
                   greeks, ai_analysis, uncaught>>

HistoryRendering ==
    <<Msg("subheader", "Historical Data Analysis"), Msg("chart", "Price Chart"),
      Msg("chart", "Candlestick Chart"), Msg("subheader", "Basic Statistics"),
      Msg("write", "describe"), Msg("download", "Download Historical Data as CSV")>>

Tab3 ==
    /\ pc = "tab3"
    /\ \E raises \in BOOLEAN, data \in BarLists :
        LET e == get_historical_data(symbol, Value(start_date), Value(end_date), timeframe,
                                     raises, data)
            shown == IF e.raised \/ IsNone(e.ret) \/ Value(e.ret) = <<>> THEN <<>>
                     ELSE HistoryRendering
        IN /\ historical_data' = IF e.raised THEN historical_data ELSE e.ret
           /\ Section("get_historical_data", e,
                      IF raises THEN "raise" ELSE IF data = <<>> THEN "nodata" ELSE "data",
                      shown, e.raised, "tab4")
    /\ UNCHANGED <<inputs, company_name, end_date, start_date, pressed, details, quote,
                   greeks, ai_analysis, uncaught>>

\* what yfinance and the pricing library answered to get_option_greeks
GreeksAnswer(mkt, fails, lib) ==
    IF fails = "options" THEN "raise"
    ELSE IF mkt.options = <<>> THEN "nodata"
    ELSE IF fails # "none" THEN "raise"
    ELSE IF mkt.closes = <<>> \/ mkt.chain[mkt.options[1]] = <<>> THEN "raise"
    ELSE LET call == mkt.chain[mkt.options[1]][1] IN
         IF call.ivState = "nokey" THEN "raise"
         ELSE IF Degenerate(call) THEN "degenerate"
         ELSE "data"

Tab4 ==
    /\ pc = "tab4"
    /\ \E fails \in YfFailures, lib \in LibraryAnswers :
        LET e == get_option_greeks(symbol, market, fails, lib)
            shown == IF e.raised THEN <<>>
                     ELSE IF ~IsNone(e.ret)
                     THEN <<Msg("subheader", "Option Greeks"), Msg("table", "Option Greeks"),
                            Msg("info", "Note: These are simplified calculations")>>
                     ELSE <<Msg("warning", "Option Greeks are not available for this stock.")>>
        IN /\ greeks' = IF e.raised THEN greeks ELSE e.ret
           /\ Section("get_option_greeks", e, GreeksAnswer(market, fails, lib),
                      shown, e.raised, "tab5")
    /\ UNCHANGED <<inputs, company_name, end_date, start_date, pressed, details, quote,
                   historical_data, ai_analysis, uncaught>>

Sufficient(d, q, h, g) == ~IsNone(d) /\ ~IsNone(q) /\ ~IsNone(h) /\ ~IsNone(g)

Tab5 ==
    /\ pc = "tab5"
    /\ LET head == <<Msg("subheader", "AI-Driven Stock Analysis")>> IN
       IF Sufficient(details, quote, historical_data, greeks)
       THEN \E raises \in BOOLEAN, completion \in Completions :
              LET p == format_stock_data_for_chatgpt(symbol, Value(details), Value(quote),
                                                     Value(historical_data), Value(greeks))
                  e == get_chatgpt_analysis(p.prompt, raises, completion)
                  said == ~IsNone(e.ret) /\ Value(e.ret) # <<>>
              IN IF p.raised
                 THEN /\ ui' = ui \o head \o Unexpected(TRUE)
                      /\ log' = log \o UnexpectedLog(TRUE)
                      /\ pc' = "done"
                      /\ UNCHANGED <<ai_analysis, requests, invoked, gateway>>
                 ELSE /\ ai_analysis' = IF e.raised THEN ai_analysis ELSE e.ret
                      /\ Section("get_chatgpt_analysis", [e EXCEPT !.msgs = head \o e.msgs],
                                 IF raises THEN "raise" ELSE "data",
                                 IF e.raised THEN <<>>
                                 ELSE IF said THEN <<Msg("write", "ai_analysis")>>
                                 ELSE <<Msg("warning", "Unable to generate AI-driven insights at this time.")>>,
                                 e.raised, "done")
       ELSE /\ ui' = ui \o head \o
                     <<Msg("warning", "Insufficient data to generate AI-driven insights.")>>
            /\ pc' = "done"
            /\ UNCHANGED <<ai_analysis, requests, invoked, gateway, log>>
    /\ UNCHANGED <<inputs, company_name, end_date, start_date, pressed, details, quote,
                   historical_data, greeks, uncaught>>

Next == Sidebar \/ SearchSymbol \/ AnalyzeStock \/ Tab1 \/ Tab2 \/ Tab3 \/ Tab4 \/ Tab5

Spec == Init /\ [][Next]_vars

\* the same script with range and timeframe labels outside the widgets' lists
InitLabels == InitWith(RangeOptions \cup OtherRangeLabels,
                       TimeframeOptions \cup OtherTimeframeLabels, BasicMarkets)
SpecLabels == InitLabels /\ [][Next]_vars

\* the same script against markets with several expirations, contracts and closes
InitGreeks == InitWith({"1 Month"}, {"1 Day"}, RichMarkets)
SpecGreeks == InitGreeks /\ [][Next]_vars

----------------------------------------------------------------------------
(* Claims *)

AnalysisSections == {"get_stock_details", "get_current_quote", "get_historical_data",
                     "get_option_greeks"}
AnalysisFunctions == AnalysisSections \cup {"get_chatgpt_analysis"}

Blank(text) == \A i \in DOMAIN text : text[i] \in {" ", "\t", "\n"}
AnalysisRun == pressed = "analyze" /\ ~Blank(polygon_api_key) /\ ~Blank(symbol)
Calls(f) == Cardinality({i \in DOMAIN invoked : invoked[i] = f})
Logged(text) == Cardinality({i \in DOMAIN log : log[i] = text})

ResultOf(f) ==
    CASE f = "get_stock_details" -> details
      [] f = "get_current_quote" -> quote
      [] f = "get_historical_data" -> historical_data
      [] f = "get_option_greeks" -> greeks
      [] f = "get_chatgpt_analysis" -> ai_analysis
      [] OTHER -> None

UnavailableNotice(f) ==
    CASE f = "get_stock_details" -> "No details found for symbol"
      [] f = "get_current_quote" -> "No current quote available for symbol"
      [] f = "get_historical_data" -> "No historical data available for symbol"
      [] f = "get_option_greeks" -> "Option Greeks are not available for this stock."
      [] f = "get_chatgpt_analysis" -> "Unable to generate AI-driven insights at this time."
      [] OTHER -> "Could not find symbol for"

ErrorLogLine(f) ==
    CASE f = "get_stock_details" -> "Error fetching stock details"
      [] f = "get_current_quote" -> "Error fetching current quote"
      [] f = "get_historical_data" -> "Error fetching historical data"
      [] f = "get_option_greeks" -> "Error fetching option Greeks"
      [] f = "get_chatgpt_analysis" -> "Error getting ChatGPT analysis"
      [] OTHER -> "Error searching stock symbol"

\* every text with which a section tells the user that it has nothing to show
NoDataTexts(f) == {UnavailableNotice(f), ErrorLogLine(f)}

HandlerFailed == Shown("error", "An unexpected error occurred")

\* C1: in a finished analysis run with non-blank key and symbol, whatever failed in
\* one section, every one of the four sections has been fetched and no exception
\* left the script.
C1_SectionsDegradeIndependently ==
    (AnalysisRun /\ pc = "done") =>
        /\ \A f \in AnalysisSections : Calls(f) = 1
        /\ ~uncaught

\* C2: when the provider answers a fetch of an analysis run with its "no data"
\* signal, the fetch returns None, nothing is raised and the section's
\* "unavailable" notice is on the page.
C2_NoDataIsNoticed ==
    \A f \in AnalysisSections :
        gateway[f] = "nodata" =>
            /\ IsNone(ResultOf(f))
            /\ ~uncaught /\ ~HandlerFailed
            /\ Shown("warning", UnavailableNotice(f))

C2_Witness ==
    /\ pc = "done"
    /\ \A f \in AnalysisSections : gateway[f] = "nodata"

\* C3: an exception raised by the provider inside any fetch function is caught
\* there, written to the error log, shown to the user as an error message and
\* not re-raised; the function returns None.
C3_ProviderErrorIsLoggedAndShown ==
    \A f \in FetchFunctions :
        gateway[f] = "raise" =>
            /\ IsNone(ResultOf(f))
            /\ ~uncaught /\ ~HandlerFailed
            /\ Logged(ErrorLogLine(f)) >= 1
            /\ \E i \in DOMAIN ui : ui[i].kind = "error" /\ ui[i].text \in NoDataTexts(f)

\* C4: "Analyze Stock" pressed with a blank (empty or whitespace-only) key or
\* symbol sends no request to any provider, calls no fetch function and shows
\* the missing-input error at once.
C4_MissingInputCallsNothing ==
    (pressed = "analyze" /\ (Blank(polygon_api_key) \/ Blank(symbol))) =>
        /\ requests = <<>>
        /\ invoked = <<>>
        /\ pc = "done"
        /\ ui = <<Msg("error", "Please add your Polygon API Key and enter a stock symbol.")>>

C4_Witness ==
    /\ pressed = "analyze"
    /\ polygon_api_key # <<>> /\ Blank(polygon_api_key)
    /\ ~Blank(symbol)

\* C5: within one analysis run every fetch function is invoked at most once and
\* sends each of its requests at most once; a call whose provider raised is
\* logged exactly once and shows exactly one "no data" message for its section.
C5_NoRetry ==
    /\ \A f \in AnalysisFunctions : Calls(f) <= 1
    /\ \A i, j \in DOMAIN requests : requests[i].api = requests[j].api => i = j
    /\ \A f \in AnalysisFunctions :
          gateway[f] = "raise" =>
              /\ Logged(ErrorLogLine(f)) = 1
              /\ CountShown(NoDataTexts(f)) = 1

C5_Witness ==
    /\ pc = "done"
    /\ gateway["get_current_quote"] = "raise"
    /\ gateway["get_option_greeks"] = "raise"

DocumentedDays(label) ==
    CASE label = "1 Day" -> 1
      [] label = "3 Days" -> 3
      [] label = "1 Month" -> 30
      [] label = "3 Months" -> 90
      [] OTHER -> 365

\* C6: once the sidebar has run, end is the clock's reading and end - start is
\* 1, 3, 30, 90 or 365 days for the five labels, 365 days for any other label.
C6_DateRangeOffsets ==
    pc # "sidebar" =>
        /\ Value(end_date) = now
        /\ Value(end_date) - Value(start_date) = DocumentedDays(date_range) * 24

C6_Witness == pc # "sidebar" /\ date_range = "1 Week"

DocumentedGranularity(label) ==
    CASE label = "1 Minute" -> <<1, "minute">>
      [] label = "5 Minutes" -> <<5, "minute">>
      [] label = "15 Minutes" -> <<15, "minute">>
      [] label = "30 Minutes" -> <<30, "minute">>
      [] label = "1 Hour" -> <<1, "hour">>
      [] label = "1 Day" -> <<1, "day">>
      [] OTHER -> <<1, "minute">>

\* C7: every history request sent to Polygon carries the multiplier and unit
\* documented for the selected timeframe ((1, minute) for any other label) and
\* the row limit 50000.
C7_HistoryRequestGranularity ==
    \A i \in DOMAIN requests :
        requests[i].api = "polygon.list_aggs" =>
            /\ <<requests[i].params.multiplier, requests[i].params.timespan>>
                  = DocumentedGranularity(timeframe)
            /\ requests[i].params.limit = 50000

C7_Witness ==
    /\ timeframe = "1 Hour"
    /\ \E i \in DOMAIN requests : requests[i].api = "polygon.list_aggs"

\* C8: when the selected contract's implied volatility is zero or missing,
\* get_option_greeks returns None, the Greeks section shows its "not available"
\* notice and the run goes on to the next step.
C8_DegenerateVolatilityIsAbsent ==
    gateway["get_option_greeks"] = "degenerate" =>
        /\ IsNone(greeks)
        /\ Shown("warning", "Option Greeks are not available for this stock.")
        /\ pc \in {"tab5", "done"} /\ ~HandlerFailed

\* C9: whenever Greeks are computed, delta, gamma, theta and vega are all taken
\* for a call from the strike and implied volatility of the first contract of
\* the first listed expiration, the latest close, 30/365 years and rate 0.01.
C9_GreeksInputs ==
    ~IsNone(greeks) =>
        LET first == market.chain[market.options[1]][1] IN
        /\ \A name \in {"delta", "gamma", "theta", "vega"} :
              Value(greeks)[name] =
                  [fn |-> name, flag |-> "c",
                   S |-> market.closes[Len(market.closes)],
                   K |-> first.strike,
                   t |-> <<30, 365>>, r |-> <<1, 100>>,
                   sigma |-> <<first.ivState, first.impliedVolatility>>]
        /\ \E i \in DOMAIN requests :
              requests[i] = Req("yf.option_chain", <<symbol, market.options[1]>>)

C9_Witness ==
    /\ ~IsNone(greeks)
    /\ market.options = <<"2027-01-15", "2026-12-18">>
    /\ market.closes = <<100, 101>>
    /\ Len(market.chain["2027-01-15"]) = 2

\* C10: in a finished analysis run the text-generation service has been called
\* only after all four fetches returned data; when any of the four is absent it
\* has not been called and the "Insufficient data" notice is shown.
C10_CommentaryOnlyWithAllData ==
    (AnalysisRun /\ pc = "done") =>
        /\ Calls("get_chatgpt_analysis") > 0 =>
              /\ \A f \in AnalysisSections : Calls(f) = 1 /\ ~IsNone(ResultOf(f))
              /\ invoked[Len(invoked)] = "get_chatgpt_analysis"
        /\ (\E f \in AnalysisSections : IsNone(ResultOf(f))) =>
              /\ Calls("get_chatgpt_analysis") = 0
              /\ Shown("warning", "Insufficient data to generate AI-driven insights.")

====
